---- MODULE Spec2Model ----
(***************************************************************************)
(* Invoicing and payment reconciliation of the EduVerse backend            *)
(* (src/main.py, "Invoices & Payments").                                   *)
(*                                                                         *)
(* Money is counted exactly, in thousandths of a currency unit: 1180.00 is *)
(* 1180000.  Comparisons against the amount due are made on both sides     *)
(* multiplied by 100, so that gst_percent * items_total / 100 is exact.    *)
(*                                                                         *)
(* The store is the two collections the handlers touch: "invoice" (keyed   *)
(* by object id) and "payment" (documents in insertion order).  A call of  *)
(* record_payment is a record of `calls`; its pc walks through the store   *)
(* operations of the handler, which are the points where calls of          *)
(* different requests interleave.                                          *)
(***************************************************************************)
EXTENDS Integers, Sequences, FiniteSets

VARIABLES
    invoice,    \* db["invoice"]: object id -> document
    payment,    \* db["payment"]: sequence of documents, payment[i]._id = i
    calls,      \* the record_payment calls received so far, in order of arrival
    pending     \* history: ids of payments whose call stopped before its status
                \* write and that no later completed call has followed yet

vars == <<invoice, payment, calls, pending>>

\* Number of record_payment calls a behaviour contains.
MaxCalls == 2

\* 1e-2 of main.py line 208, in thousandths.
Tolerance == 10

----------------------------------------------------------------------------
(* Inputs *)

\* schemas.Payment.method: Literal["upi", "wallet", "card", "cash"]
MethodLiteral == {"upi", "wallet", "card", "cash"}

Institutions == {"i1", "i2"}

\* Request strings for invoice_id.  "aa" is the id create_invoice returned for
\* the stored invoice; "AA" is the same 24 hex digits in upper case; "cc" is a
\* well-formed id of no stored invoice; "zz" is not a hex string.
IdStrings == {"aa", "AA", "cc", "zz"}

\* 1180.00, 680.00, 500.00 and -500.00
Amounts == {1180000, 680000, 500000, -500000}

\* Inputs of the concurrent runs: halves of the 1180.00 due.
ConcIdStrings == {"aa", "AA", "zz"}
ConcAmounts == {590000}
ConcShapes == { [items |-> <<1000000>>, gst_percent |-> 18] }

\* Inputs of the tolerance runs: 99.99, 99.989 and 0.005 against 100.00 due.
TolIdStrings == {"aa", "AA"}
TolAmounts == {99990, 99989, 5}
Methods == {"cash", "cheque"}
TolShapes == { [items |-> <<100000>>, gst_percent |-> 0] }

\* (items, gst_percent) of the stored invoice: 1000.00 + 18% = 1180.00 due, and
\* the invoice without items.
InvoiceShapes ==
    { [items |-> <<1000000>>, gst_percent |-> 18],
      [items |-> <<>>,        gst_percent |-> 0] }

\* Object ids of the invoice collection; InvalidId stands for "no object id".
InvoiceOids == {1}
InvalidId == 0

----------------------------------------------------------------------------
(* Pure helpers *)

\* to_oid: ObjectId(id_str) reads 24 hex digits, in either case, into 12 bytes
\* and raises for anything else (HTTP 400).  InvalidId is the raise.
ToOid(id_str) ==
    CASE id_str \in {"aa", "AA"} -> 1
      [] id_str = "cc"           -> 2
      [] OTHER                   -> InvalidId

\* str(inserted_id): the id string create_document hands back (lower-case hex).
OidStr(oid) ==
    CASE oid = 1 -> "aa"
      [] oid = 2 -> "cc"
      [] OTHER   -> "zz"

RECURSIVE SumSeq(_)
SumSeq(s) == IF s = <<>> THEN 0 ELSE Head(s) + SumSeq(Tail(s))

\* sum([it.get("amount", 0) for it in inv.get("items", [])])
ItemsTotal(inv) == SumSeq(inv.items)

\* 100 * (items_total + gst_percent * items_total / 100)
Due100(inv) == 100 * ItemsTotal(inv) + inv.gst_percent * ItemsTotal(inv)

\* A variant of ComputeStatus whose comparison is strict: an amount paid of
\* exactly due - 1e-2 is not yet "paid".
ComputeStatusStrict(paid_total, inv) ==
    IF 100 * paid_total > Due100(inv) - 100 * Tolerance
    THEN "paid"
    ELSE IF paid_total > 0 THEN "partially_paid" ELSE "unpaid"

\* "paid" if paid_total >= due - 1e-2 else ("partially_paid" if paid_total > 0
\* else "unpaid")
ComputeStatus(paid_total, inv) ==
    IF 100 * paid_total >= Due100(inv) - 100 * Tolerance
    THEN "paid"
    ELSE IF paid_total > 0 THEN "partially_paid" ELSE "unpaid"

\* db["payment"].find({"invoice_id": id_str}) on a payment collection: the
\* documents whose invoice_id field is that very string.
FindPayments(coll, id_str) == SelectSeq(coll, LAMBDA p : p.invoice_id = id_str)

\* A variant of PaidTotal that counts the most recent payment alone.
PaidTotalLast(docs) == IF docs = <<>> THEN 0 ELSE docs[Len(docs)].amount

\* sum([p.get("amount", 0) for p in ...])
PaidTotal(docs) == SumSeq([i \in 1..Len(docs) |-> docs[i].amount])

\* create_invoice: the document stored, status "unpaid" whatever the items.
CreateInvoice(inst, items, gst) ==
    [institution_id |-> inst, items |-> items, gst_percent |-> gst,
     status |-> "unpaid"]

\* Payment(...): the document create_document stores, with the id it is given.
PaymentDoc(id, req) ==
    [_id |-> id, institution_id |-> req.institution_id,
     invoice_id |-> req.invoice_id, amount |-> req.amount,
     method |-> req.method]

\* database.create_document on the payment collection: the document is
\* appended under a fresh id, which is the id returned.  (The handlers run with
\* a store: without one create_document fails before anything is written.)
CreateDocument(coll, req) == Append(coll, PaymentDoc(Len(coll) + 1, req))

----------------------------------------------------------------------------
(* State *)

AllDone == \A c \in 1..Len(calls) : calls[c].pc = "done"

InitWith(shapes) ==
    /\ \E sh \in shapes :
         invoice = [o \in InvoiceOids |-> CreateInvoice("i1", sh.items, sh.gst_percent)]
    /\ payment = <<>>
    /\ calls = <<>>
    /\ pending = {}

Init == InitWith(InvoiceShapes)

\* A request arrives and the handler builds Payment(...).  A method outside the
\* Literal makes the constructor raise inside the handler (HTTP 500) before
\* anything is written; amount is a plain float and is not looked at.
Begin(inst, id_str, amt, meth) ==
    /\ Len(calls) < MaxCalls
    /\ calls' = Append(calls,
         [req    |-> [institution_id |-> inst, invoice_id |-> id_str,
                      amount |-> amt, method |-> meth],
          pc     |-> IF meth \in MethodLiteral THEN "insert" ELSE "done",
          result |-> IF meth \in MethodLiteral THEN "none" ELSE "error_500",
          pid    |-> 0,
          inv    |-> 0,
          paid_total |-> 0,
          status |-> "none",
          snap   |-> {},
          wrote  |-> FALSE,
          missed |-> {}])
    /\ UNCHANGED <<invoice, payment, pending>>

\* pid = create_document("payment", pay)
InsertPayment(c) ==
    /\ calls[c].pc = "insert"
    /\ payment' = CreateDocument(payment, calls[c].req)
    /\ calls' = [calls EXCEPT ![c].pid = Len(payment'), ![c].pc = "lookup"]
    /\ UNCHANGED <<invoice, pending>>

\* inv = db["invoice"].find_one({"_id": to_oid(payload.invoice_id)}); if inv:
LookupInvoice(c) ==
    /\ calls[c].pc = "lookup"
    /\ LET oid == ToOid(calls[c].req.invoice_id) IN
         calls' =
           IF oid = InvalidId
           THEN [calls EXCEPT ![c].pc = "done", ![c].result = "error_400"]
           ELSE IF oid \notin DOMAIN invoice
           THEN [calls EXCEPT ![c].pc = "done", ![c].result = "id"]
           ELSE [calls EXCEPT ![c].pc = "ledger", ![c].inv = oid]
    /\ UNCHANGED <<invoice, payment, pending>>

\* A variant of Snapshot that reads the ledger as it was before the call's own
\* insert.
SnapshotBeforeInsert(c) ==
    LET docs == FindPayments(payment, calls[c].req.invoice_id)
    IN  {docs[i]._id : i \in 1..Len(docs)} \ {calls[c].pid}

\* The ids of the documents db["payment"].find({"invoice_id": ...}) returns to
\* call c.
Snapshot(c) ==
    LET docs == FindPayments(payment, calls[c].req.invoice_id)
    IN  {docs[i]._id : i \in 1..Len(docs)}

\* paid_total, items_total, gst, due, status of lines 204-208
ReadLedger(c) ==
    /\ calls[c].pc = "ledger"
    /\ LET snap  == Snapshot(c)
           docs  == SelectSeq(payment, LAMBDA p : p._id \in snap)
           total == PaidTotal(docs)
       IN  calls' = [calls EXCEPT ![c].pc = "update",
                                  ![c].snap = snap,
                                  ![c].paid_total = total,
                                  ![c].status = ComputeStatus(total, invoice[calls[c].inv])]
    /\ UNCHANGED <<invoice, payment, pending>>

\* The stopped payments that reference invoice oid and await a completed call.
PendingFor(oid) == {p \in pending : ToOid(payment[p].invoice_id) = oid}

\* db["invoice"].update_one(..., {"$set": {"status": status}}); return {"id": pid}
UpdateStatus(c) ==
    /\ calls[c].pc = "update"
    /\ invoice' = [invoice EXCEPT ![calls[c].inv].status = calls[c].status]
    /\ calls' = [calls EXCEPT ![c].pc = "done", ![c].result = "id",
                              ![c].wrote = TRUE,
                              ![c].missed = PendingFor(calls[c].inv) \ calls[c].snap]
    /\ pending' = pending \ PendingFor(calls[c].inv)
    /\ UNCHANGED payment

\* A store operation raises: the exception leaves the handler (HTTP 500).
StoreError(c) ==
    /\ calls[c].pc \in {"insert", "lookup", "ledger", "update"}
    /\ calls' = [calls EXCEPT ![c].pc = "done", ![c].result = "error_500"]
    /\ pending' = IF calls[c].pid # 0 /\ ToOid(calls[c].req.invoice_id) \in DOMAIN invoice
                  THEN pending \cup {calls[c].pid} ELSE pending
    /\ UNCHANGED <<invoice, payment>>

\* The call is cancelled between two store operations: nothing is answered.
Cancel(c) ==
    /\ calls[c].pc \in {"lookup", "ledger", "update"}
    /\ calls' = [calls EXCEPT ![c].pc = "done", ![c].result = "cancelled"]
    /\ pending' = IF calls[c].pid # 0 /\ ToOid(calls[c].req.invoice_id) \in DOMAIN invoice
                  THEN pending \cup {calls[c].pid} ELSE pending
    /\ UNCHANGED <<invoice, payment>>

----------------------------------------------------------------------------
(* Spec: calls arrive one after another and each runs to completion. *)

SeqBegin ==
    /\ AllDone
    /\ \E inst \in Institutions, id_str \in IdStrings, amt \in Amounts :
         Begin(inst, id_str, amt, "cash")

Insert == \E c \in 1..Len(calls) : InsertPayment(c)
Lookup == \E c \in 1..Len(calls) : LookupInvoice(c)
Ledger == \E c \in 1..Len(calls) : ReadLedger(c)
Update == \E c \in 1..Len(calls) : UpdateStatus(c)
Fail == \E c \in 1..Len(calls) : StoreError(c)
Stop == \E c \in 1..Len(calls) : Cancel(c)

Next == SeqBegin \/ Insert \/ Lookup \/ Ledger \/ Update

Spec == Init /\ [][Next]_vars

----------------------------------------------------------------------------
(* SpecConc: calls arrive at any time and their store operations interleave; *)
(* a store operation may raise and a call may be cancelled.                  *)

ConcBegin ==
    \E id_str \in ConcIdStrings, amt \in ConcAmounts :
        Begin("i1", id_str, amt, "cash")

ConcNext == ConcBegin \/ Insert \/ Lookup \/ Ledger \/ Update \/ Fail \/ Stop

InitConc == InitWith(ConcShapes)

SpecConc == InitConc /\ [][ConcNext]_vars

----------------------------------------------------------------------------
(* SpecTol: one call after another against an invoice of 100.00 due, with    *)
(* amounts around the tolerance.                                             *)

InitTol == InitWith(TolShapes)

TolBegin ==
    /\ AllDone
    /\ \E id_str \in TolIdStrings, amt \in TolAmounts, meth \in Methods :
         Begin("i1", id_str, amt, meth)

TolNext == TolBegin \/ Insert \/ Lookup \/ Ledger \/ Update

SpecTol == InitTol /\ [][TolNext]_vars

----------------------------------------------------------------------------
(* record_payment as one function of the store, for runs without overlap:  *)
(* st is [invoice, payment] and the result is the store after the call.     *)

RecordPayment(st, req) ==
    LET pay == CreateDocument(st.payment, req)
        oid == ToOid(req.invoice_id)
    IN  IF req.method \notin MethodLiteral
        THEN st
        ELSE IF oid = InvalidId \/ oid \notin DOMAIN st.invoice
        THEN [st EXCEPT !.payment = pay]
        ELSE [invoice |-> [st.invoice EXCEPT ![oid].status =
                             ComputeStatus(PaidTotal(FindPayments(pay, req.invoice_id)),
                                           st.invoice[oid])],
              payment |-> pay]

RECURSIVE Replay(_, _)
Replay(st, reqs) ==
    IF reqs = <<>> THEN st ELSE Replay(RecordPayment(st, Head(reqs)), Tail(reqs))

\* The store as create_invoice left it: the same invoices, unpaid, no payment.
FreshStore ==
    [invoice |-> [o \in DOMAIN invoice |->
                    CreateInvoice(invoice[o].institution_id, invoice[o].items,
                                  invoice[o].gst_percent)],
     payment |-> <<>>]

----------------------------------------------------------------------------
(* Vocabulary of the properties *)

Calls == 1..Len(calls)

\* The payments that reference invoice oid: by the object id their invoice_id
\* parses to, and by the id string the store handed out for the invoice.
ReferencingByOid(oid) == SelectSeq(payment, LAMBDA p : ToOid(p.invoice_id) = oid)
ReferencingByString(oid) == FindPayments(payment, OidStr(oid))

\* The status derived from a ledger for invoice oid.
Derived(docs, oid) == ComputeStatus(PaidTotal(docs), invoice[oid])

Rank(status) ==
    CASE status = "unpaid" -> 0 [] status = "partially_paid" -> 1 [] OTHER -> 2

\* The call's payment is in the ledger.
Recorded(c) == calls[c].pid # 0

\* The request names no invoice of its institution: a well-formed id of no
\* stored invoice, or the id of an invoice of another institution.
NoSuchInvoice(req) ==
    LET oid == ToOid(req.invoice_id)
    IN  /\ oid # InvalidId
        /\ \/ oid \notin DOMAIN invoice
           \/ invoice[oid].institution_id # req.institution_id

Orderings(n) ==
    {f \in [1..n -> 1..n] : \A i, j \in 1..n : f[i] = f[j] => i = j}

HalfOf1180(c) ==
    /\ calls[c].req.invoice_id = "aa"
    /\ calls[c].req.amount = 590000
    /\ calls[c].inv = 1
    /\ Due100(invoice[1]) = 118000000

----------------------------------------------------------------------------
(* Claims *)

\* C1: two concurrent record_payment calls of 590 each against an invoice with
\* 1180 due and no prior payment: once both have finished, the persisted status
\* is "paid", whatever the interleaving of their steps.
C1_ConcurrentHalvesPaid ==
    ( /\ Len(calls) = 2
      /\ \A c \in Calls : HalfOf1180(c) /\ calls[c].pc = "done" /\ calls[c].wrote )
    => invoice[1].status = "paid"

\* C2: after calls that each ran to completion before the next started, every
\* invoice that has received a payment has the status derived from its items,
\* its gst_percent and the sum of all payments that reference it -- whichever
\* way "reference" is read (by the object id or by the stored id string).
\* Stated for payments of positive amounts, the only ones the ledger is meant
\* to hold.
C2_StatusFromAllPayments ==
    (AllDone /\ \A c \in Calls : calls[c].req.amount > 0) =>
      \A oid \in DOMAIN invoice :
        \/ ( ReferencingByOid(oid) # <<>>
             => invoice[oid].status = Derived(ReferencingByOid(oid), oid) )
        \/ ( ReferencingByString(oid) # <<>>
             => invoice[oid].status = Derived(ReferencingByString(oid), oid) )

\* C3: a record_payment call with amount <= 0 is rejected before any write: it
\* adds no payment, writes no status and does not answer with a payment id.
C3_NonPositiveRejected ==
    \A c \in Calls :
      calls[c].req.amount <= 0 =>
        /\ ~Recorded(c)
        /\ ~calls[c].wrote
        /\ calls[c].result # "id"

\* C4: a record_payment call whose invoice_id names no invoice of the given
\* institution fails and creates no partial state: no payment is added, no
\* status is written, no payment id is answered.
C4_NotFoundNoPartialState ==
    \A c \in Calls :
      NoSuchInvoice(calls[c].req) =>
        /\ ~Recorded(c)
        /\ ~calls[c].wrote
        /\ calls[c].result # "id"

\* C5: the persisted status of an invoice only moves forward along
\* unpaid -> partially_paid -> paid: no step of a record_payment call lowers it.
C5_StatusNeverRegresses ==
    [][\A oid \in DOMAIN invoice :
         Rank(invoice'[oid].status) >= Rank(invoice[oid].status)]_vars

\* C6: once a call has persisted its payment, the caller is never answered
\* with an error: a finished call whose payment is in the ledger returned the
\* payment id (a cancelled call answers nothing).
C6_RecordedPaymentReturnsId ==
    \A c \in Calls :
      (Recorded(c) /\ calls[c].pc = "done" /\ calls[c].result # "cancelled")
        => calls[c].result = "id"

\* C7, as stated: against 100.00 due, cumulative payments of 99.99 give
\* "partially_paid" and cumulative payments of 99.995 give "paid".
C7_ToleranceAsStated ==
    \A c \in Calls :
      (calls[c].status # "none" /\ Due100(invoice[calls[c].inv]) = 10000000) =>
        /\ calls[c].paid_total = 99990 => calls[c].status = "partially_paid"
        /\ calls[c].paid_total = 99995 => calls[c].status = "paid"

\* C7, amended: against 100.00 due, cumulative payments of 99.99 (exactly
\* due - 0.01) and of 99.995 both give "paid"; 99.989 gives "partially_paid".
C7_ToleranceInclusive ==
    \A c \in Calls :
      (calls[c].status # "none" /\ Due100(invoice[calls[c].inv]) = 10000000) =>
        /\ calls[c].paid_total = 99990 => calls[c].status = "paid"
        /\ calls[c].paid_total = 99995 => calls[c].status = "paid"
        /\ calls[c].paid_total = 99989 => calls[c].status = "partially_paid"

\* The tolerance boundary was computed and written: 99.99 by one call and
\* 99.995 by another.
C7_Witness ==
    \E c, d \in Calls :
      /\ calls[c].wrote /\ calls[c].paid_total = 99990
      /\ calls[d].wrote /\ calls[d].paid_total = 99995
      /\ invoice[1].status = "paid"

\* The calls so far all completed against the same invoice under the same
\* invoice_id string: they recorded a multiset of amounts for it.
SameInvoiceRun ==
    /\ calls # <<>>
    /\ \A c \in Calls :
         /\ calls[c].pc = "done"
         /\ calls[c].wrote
         /\ calls[c].req.invoice_id = calls[1].req.invoice_id

C9_OrphanCountedByNextCall ==
    \A c \in Calls :
      /\ Recorded(c) => /\ calls[c].pid <= Len(payment)
                        /\ payment[calls[c].pid]._id = calls[c].pid
      /\ calls[c].missed = {}

\* C10: with strictly positive amounts, every status a call computes comes from
\* a ledger snapshot that contains the call's own payment, and once a call has
\* written the status of an invoice that status is never "unpaid" again.
C10_OwnPaymentInSnapshot ==
    (\A c \in Calls : calls[c].req.amount > 0) =>
      /\ \A c \in Calls : calls[c].status # "none" => calls[c].pid \in calls[c].snap
      /\ \A c \in Calls : calls[c].wrote => invoice[calls[c].inv].status # "unpaid"

\* Two overlapping halves both wrote, and the status that stays is the stale
\* "partially_paid".
C10_Witness ==
    /\ Len(calls) = 2
    /\ \A c \in Calls : HalfOf1180(c) /\ calls[c].wrote
    /\ invoice[1].status = "partially_paid"

====
